---- MODULE Spec2Model ----
(***************************************************************************)
(* Secret rotation Lambda (rotation_lambda.py): the four rotation steps    *)
(* dispatched by handler() against the Secrets Manager client.             *)
(*                                                                         *)
(* Strings that the code slices (the token) are sequences of character     *)
(* codes.  JSON values are tagged sequences: <<0, n>> is the integer n,    *)
(* <<1, c1, ..., ck>> the string c1..ck.  A SecretString is the JSON text: *)
(* kind "object" with its key/value pairs in textual order (duplicates     *)
(* allowed), kind "array" with its string items, kind "scalar", or kind    *)
(* "invalid" (text that json.loads rejects).                               *)
(***************************************************************************)
EXTENDS Integers, Sequences, FiniteSets, TLC

\* ------------------------------------------------------------- bounds
NumTokens == 3
MaxTime == 2

\* --------------------------------------------------- program constants
RotationIdLen == 8

\* ----------------------------------------------------------- alphabet
Range(s) == { s[i] : i \in 1..Len(s) }

\* Token i: token 1 is shorter than RotationIdLen, token 2 has exactly
\* RotationIdLen characters, tokens 3.. are longer and share token 2's
\* first RotationIdLen characters.
Tok(i) == [ j \in 1..(RotationIdLen + i - 2) |-> IF j <= RotationIdLen THEN j ELSE i ]

Tokens == { Tok(i) : i \in 1..NumTokens }

NoId == << >>

NoStage == ""

Times == 1..MaxTime

KnownSteps == << "createSecret", "setSecret", "testSecret", "finishSecret" >>

StepInputs == Range(KnownSteps) \cup { "rollbackSecret" }

IntVal(n) == << 0, n >>

StrVal(s) == << 1 >> \o s

IsIntVal(v) == v[1] = 0

\* ------------------------------------------------------------ errors
OK == "OK"

\* json.JSONDecodeError is a subclass of ValueError
InvalidStep == "ValueError: Invalid step"

IsValueError(e) == e \in { "ValueError", "JSONDecodeError", InvalidStep }

\* -------------------------------------------------------------- JSON
JObject(pairs) == [ kind |-> "object", pairs |-> pairs, items |-> << >> ]

JArray(items) == [ kind |-> "array", pairs |-> << >>, items |-> items ]

JScalar == [ kind |-> "scalar", pairs |-> << >>, items |-> << >> ]

JInvalid == [ kind |-> "invalid", pairs |-> << >>, items |-> << >> ]

Keys(pairs) == { pairs[i][1] : i \in 1..Len(pairs) }

\* d[k] of a dict with unique keys
Lookup(pairs, k) == pairs[CHOOSE i \in 1..Len(pairs) : pairs[i][1] = k][2]

\* d[k] = v: replaces the value in place, or appends the key
DictSet(pairs, k, v) ==
    IF k \in Keys(pairs)
    THEN [ i \in 1..Len(pairs) |-> IF pairs[i][1] = k THEN << k, v >> ELSE pairs[i] ]
    ELSE Append(pairs, << k, v >>)

RECURSIVE DictFromPairs(_)
\* dict(pairs) as json.loads builds it: a key keeps the position of its
\* first occurrence and the value of its last
DictFromPairs(pairs) ==
    IF pairs = << >> THEN << >>
    ELSE LET n == Len(pairs)
             init == DictFromPairs(SubSeq(pairs, 1, n - 1))
         IN  DictSet(init, pairs[n][1], pairs[n][2])

\* json.loads: [err, val]
json_loads(s) ==
    CASE s.kind = "invalid" -> [ err |-> "JSONDecodeError", val |-> JInvalid ]
      [] s.kind = "object"  -> [ err |-> OK, val |-> JObject(DictFromPairs(s.pairs)) ]
      [] OTHER              -> [ err |-> OK, val |-> s ]

\* json.dumps of a loaded value: the pairs of a dict in insertion order
json_dumps(d) ==
    CASE d.kind = "object" -> JObject(d.pairs)
      [] d.kind = "array"  -> JArray(d.items)
      [] OTHER             -> JScalar

\* Python's `k in x` for a dict (keys) and a list (elements)
Contains(d, k) ==
    CASE d.kind = "object" -> k \in Keys(d.pairs)
      [] d.kind = "array"  -> k \in Range(d.items)
      [] OTHER             -> FALSE

\* token[:8]
Prefix(s, n) == SubSeq(s, 1, IF Len(s) < n THEN Len(s) ELSE n)

\* ------------------------------------------------- the secret store
\* A store value: ids (the version ids), str (id -> SecretString) and
\* stages (id -> set of staging labels).
Labels == { "AWSCURRENT", "AWSPENDING", "AWSPREVIOUS" }

EmptyStore == [ ids |-> {}, str |-> << >>, stages |-> << >> ]

Holders(S, label) == { v \in S.ids : label \in S.stages[v] }

\* secretsmanager.get_secret_value(SecretId, [VersionId], [VersionStage]):
\* the version that has the id (when given) and carries the stage (when
\* given; AWSCURRENT when neither is); ResourceNotFoundException when there
\* is none.  [err, str]
GetSecretValue(S, vid, stage) ==
    LET want == IF vid = NoId /\ stage = NoStage THEN "AWSCURRENT" ELSE stage
        m == { v \in S.ids : /\ vid = NoId \/ v = vid
                             /\ want = NoStage \/ want \in S.stages[v] }
    IN  IF m = {}
        THEN [ err |-> "ResourceNotFoundException", str |-> JInvalid ]
        ELSE [ err |-> OK, str |-> S.str[CHOOSE v \in m : TRUE] ]

\* PutSecretValue, but the labels stay on the versions that had them.
PutSecretValue_KeepLabels(S, token, string, labels, fault) ==
    CASE fault ->
           [ err |-> "InternalServiceError", store |-> S ]
      [] ~fault /\ token \in S.ids /\ S.str[token] = string ->
           [ err |-> OK, store |-> S ]
      [] ~fault /\ token \in S.ids /\ S.str[token] # string ->
           [ err |-> "ResourceExistsException", store |-> S ]
      [] OTHER ->
           [ err |-> OK,
             store |-> [ ids |-> S.ids \cup { token },
                         str |-> [ v \in S.ids \cup { token } |->
                                     IF v = token THEN string ELSE S.str[v] ],
                         stages |-> [ v \in S.ids \cup { token } |->
                                     IF v = token THEN labels ELSE S.stages[v] ] ] ]

\* secretsmanager.put_secret_value(SecretId, ClientRequestToken,
\* SecretString, VersionStages).  The token is the new version's id.  A
\* version with that id and the same content: the request is ignored; with
\* other content: ResourceExistsException.  Otherwise the version is created
\* and each given staging label is detached from the version that had it.
\* fault: the store fails the request (any other store error).  [err, store]
PutSecretValue(S, token, string, labels, fault) ==
    CASE fault ->
           [ err |-> "InternalServiceError", store |-> S ]
      [] ~fault /\ token \in S.ids /\ S.str[token] = string ->
           [ err |-> OK, store |-> S ]
      [] ~fault /\ token \in S.ids /\ S.str[token] # string ->
           [ err |-> "ResourceExistsException", store |-> S ]
      [] OTHER ->
           [ err |-> OK,
             store |-> [ ids |-> S.ids \cup { token },
                         str |-> [ v \in S.ids \cup { token } |->
                                     IF v = token THEN string ELSE S.str[v] ],
                         stages |-> [ v \in S.ids \cup { token } |->
                                     IF v = token THEN labels
                                     ELSE S.stages[v] \ labels ] ] ]

\* secretsmanager.describe_secret(SecretId)['VersionIdsToStages']
DescribeSecret(S) == S.stages

UpdateStageParams == { "SecretId", "VersionStage", "RemoveFromVersionId", "MoveToVersionId" }

\* The label moved from version `from` (or from nobody: NoId) to version
\* `to` (or to nobody).  Moving AWSCURRENT off a version leaves AWSPREVIOUS
\* on it, and on it only.
MoveLabel(S, label, from, to) ==
    [ S EXCEPT !.stages =
        [ v \in S.ids |->
            LET a == IF v = from /\ v # to THEN S.stages[v] \ { label } ELSE S.stages[v]
                b == IF v = to THEN a \cup { label } ELSE a
                c == IF label = "AWSCURRENT" /\ from # NoId /\ from # to
                     THEN IF v = from THEN b \cup { "AWSPREVIOUS" }
                                      ELSE b \ { "AWSPREVIOUS" }
                     ELSE b
            IN  c ] ]

\* secretsmanager.update_secret_version_stage(**kwargs).  The client
\* validates the keyword arguments against the operation's parameters
\* before any request is sent: an unknown keyword is a ParamValidationError.
\* The store then moves the label atomically: RemoveFromVersionId must be
\* the version that carries the label, MoveToVersionId must exist, and
\* AWSCURRENT can be moved but not removed.  [err, store]
UpdateSecretVersionStage(S, kwargs) ==
    LET given   == DOMAIN kwargs
        label   == kwargs.VersionStage
        hasFrom == "RemoveFromVersionId" \in given
        hasTo   == "MoveToVersionId" \in given
        from    == IF hasFrom THEN kwargs.RemoveFromVersionId ELSE NoId
        to      == IF hasTo THEN kwargs.MoveToVersionId ELSE NoId
        held    == Holders(S, label)
    IN  CASE ~(given \subseteq UpdateStageParams) \/ ~({ "SecretId", "VersionStage" } \subseteq given) ->
               [ err |-> "ParamValidationError", store |-> S ]
          [] OTHER ->
               CASE (hasFrom /\ from \notin S.ids) \/ (hasTo /\ to \notin S.ids) ->
                      [ err |-> "ResourceNotFoundException", store |-> S ]
                 [] OTHER ->
                      CASE ~hasFrom /\ ~hasTo ->
                             [ err |-> "InvalidRequestException", store |-> S ]
                        [] hasFrom /\ label \notin S.stages[from] ->
                             [ err |-> "InvalidParameterException", store |-> S ]
                        [] hasTo /\ ~hasFrom /\ held \notin { {}, { to } } ->
                             [ err |-> "InvalidParameterException", store |-> S ]
                        [] ~hasTo /\ label = "AWSCURRENT" ->
                             [ err |-> "InvalidParameterException", store |-> S ]
                        [] OTHER ->
                             [ err |-> OK, store |-> MoveLabel(S, label, from, to) ]

\* ------------------------------------------------- the step handlers
\* Each returns [err, store]: err is OK or the exception that leaves the
\* function, store the secret store after the call.

\* Rotate, but rotationId is the whole token.
Rotate_FullToken(d, token, now) ==
    IF Contains(d, "apiVersion")
    THEN IF d.kind = "object"
         THEN [ err |-> OK,
                val |-> JObject(DictSet(DictSet(d.pairs, "lastRotated", IntVal(now)),
                                        "rotationId", StrVal(token))) ]
         ELSE [ err |-> "TypeError", val |-> d ]
    ELSE [ err |-> OK, val |-> d ]

\* Rotate, but new_data starts empty instead of as a copy of current_data.
Rotate_Fresh(d, token, now) ==
    IF Contains(d, "apiVersion")
    THEN IF d.kind = "object"
         THEN [ err |-> OK,
                val |-> JObject(DictSet(DictSet(<< >>, "lastRotated", IntVal(now)),
                                        "rotationId", StrVal(Prefix(token, RotationIdLen)))) ]
         ELSE [ err |-> "TypeError", val |-> d ]
    ELSE [ err |-> OK, val |-> d ]

\* lines 59-63: the placeholder rotation of the payload.  [err, val]
Rotate(d, token, now) ==
    IF Contains(d, "apiVersion")
    THEN IF d.kind = "object"
         THEN [ err |-> OK,
                val |-> JObject(DictSet(DictSet(d.pairs, "lastRotated", IntVal(now)),
                                        "rotationId", StrVal(Prefix(token, RotationIdLen)))) ]
         ELSE [ err |-> "TypeError", val |-> d ]       \* a list indexed by a str
    ELSE [ err |-> OK, val |-> d ]

\* create_secret, but ResourceExistsException is raised like any other error.
create_secret_NoIdem(S, token, now, fault) ==
    LET cur == GetSecretValue(S, NoId, "AWSCURRENT")
        ld  == json_loads(cur.str)
        rot == Rotate(ld.val, token, now)
        put == PutSecretValue(S, token, json_dumps(rot.val), { "AWSPENDING" }, fault)
    IN  CASE cur.err # OK -> [ err |-> cur.err, store |-> S ]
          [] cur.err = OK /\ ld.err # OK -> [ err |-> ld.err, store |-> S ]
          [] cur.err = OK /\ ld.err = OK /\ ld.val.kind = "scalar" ->
               [ err |-> "AttributeError", store |-> S ]
          [] cur.err = OK /\ ld.err = OK /\ ld.val.kind # "scalar" /\ rot.err # OK ->
               [ err |-> rot.err, store |-> S ]
          [] OTHER -> put

\* create_secret, but the new version is put with VersionStages AWSCURRENT.
create_secret_AsCurrent(S, token, now, fault) ==
    LET cur == GetSecretValue(S, NoId, "AWSCURRENT")
        ld  == json_loads(cur.str)
        rot == Rotate(ld.val, token, now)
        put == PutSecretValue(S, token, json_dumps(rot.val), { "AWSCURRENT" }, fault)
    IN  CASE cur.err # OK -> [ err |-> cur.err, store |-> S ]
          [] cur.err = OK /\ ld.err # OK -> [ err |-> ld.err, store |-> S ]
          [] cur.err = OK /\ ld.err = OK /\ ld.val.kind = "scalar" ->
               [ err |-> "AttributeError", store |-> S ]
          [] cur.err = OK /\ ld.err = OK /\ ld.val.kind # "scalar" /\ rot.err # OK ->
               [ err |-> rot.err, store |-> S ]
          [] OTHER ->
               IF put.err = "ResourceExistsException"
               THEN [ err |-> OK, store |-> put.store ]
               ELSE put

\* create_secret, but every ClientError is logged and not raised.
create_secret_SwallowAll(S, token, now, fault) ==
    LET cur == GetSecretValue(S, NoId, "AWSCURRENT")
        ld  == json_loads(cur.str)
        rot == Rotate(ld.val, token, now)
        put == PutSecretValue(S, token, json_dumps(rot.val), { "AWSPENDING" }, fault)
    IN  CASE cur.err # OK -> [ err |-> OK, store |-> S ]
          [] cur.err = OK /\ ld.err # OK -> [ err |-> ld.err, store |-> S ]
          [] cur.err = OK /\ ld.err = OK /\ ld.val.kind = "scalar" ->
               [ err |-> "AttributeError", store |-> S ]
          [] cur.err = OK /\ ld.err = OK /\ ld.val.kind # "scalar" /\ rot.err # OK ->
               [ err |-> rot.err, store |-> S ]
          [] OTHER -> [ err |-> OK, store |-> put.store ]

create_secret(S, token, now, fault) ==
    LET cur == GetSecretValue(S, NoId, "AWSCURRENT")
        ld  == json_loads(cur.str)
        rot == Rotate(ld.val, token, now)
        put == PutSecretValue(S, token, json_dumps(rot.val), { "AWSPENDING" }, fault)
    IN  CASE cur.err # OK ->                  \* a ClientError other than ResourceExists
               [ err |-> cur.err, store |-> S ]
          [] cur.err = OK /\ ld.err # OK ->   \* json.loads raises
               [ err |-> ld.err, store |-> S ]
          [] cur.err = OK /\ ld.err = OK /\ ld.val.kind = "scalar" ->   \* no .copy()
               [ err |-> "AttributeError", store |-> S ]
          [] cur.err = OK /\ ld.err = OK /\ ld.val.kind # "scalar" /\ rot.err # OK ->
               [ err |-> rot.err, store |-> S ]
          [] OTHER ->
               IF put.err = "ResourceExistsException"
               THEN [ err |-> OK, store |-> put.store ]
               ELSE put

\* set_secret, but it first fetches the pending version of the token.
set_secret_NeedsPending(S, token) ==
    [ err |-> GetSecretValue(S, token, "AWSPENDING").err, store |-> S ]

set_secret(S, token) == [ err |-> OK, store |-> S ]

RequiredFields == { "apiVersion" }

\* The store with AWSPENDING taken off the token's version.
Demoted(S, token) ==
    [ S EXCEPT !.stages = [ v \in S.ids |->
        IF v = token THEN S.stages[v] \ { "AWSPENDING" } ELSE S.stages[v] ] ]

\* test_secret, but a version that fails validation loses AWSPENDING.
test_secret_Demote(S, token) ==
    LET pend == GetSecretValue(S, token, "AWSPENDING")
        ld   == json_loads(pend.str)
    IN  CASE pend.err # OK -> [ err |-> pend.err, store |-> S ]
          [] pend.err = OK /\ ld.err # OK -> [ err |-> ld.err, store |-> Demoted(S, token) ]
          [] pend.err = OK /\ ld.err = OK /\ ld.val.kind # "object" ->
               [ err |-> "ValueError", store |-> Demoted(S, token) ]
          [] pend.err = OK /\ ld.err = OK /\ ld.val.kind = "object"
               /\ \E f \in RequiredFields : ~Contains(ld.val, f) ->
               [ err |-> "ValueError", store |-> Demoted(S, token) ]
          [] OTHER -> [ err |-> OK, store |-> S ]

\* test_secret, but without the loop over the required fields.
test_secret_NoFields(S, token) ==
    LET pend == GetSecretValue(S, token, "AWSPENDING")
        ld   == json_loads(pend.str)
    IN  CASE pend.err # OK -> [ err |-> pend.err, store |-> S ]
          [] pend.err = OK /\ ld.err # OK -> [ err |-> ld.err, store |-> S ]
          [] pend.err = OK /\ ld.err = OK /\ ld.val.kind # "object" ->
               [ err |-> "ValueError", store |-> S ]
          [] OTHER -> [ err |-> OK, store |-> S ]

\* test_secret, but the version is fetched by its id alone.
test_secret_ById(S, token) ==
    LET pend == GetSecretValue(S, token, NoStage)
        ld   == json_loads(pend.str)
    IN  CASE pend.err # OK -> [ err |-> pend.err, store |-> S ]
          [] pend.err = OK /\ ld.err # OK -> [ err |-> ld.err, store |-> S ]
          [] pend.err = OK /\ ld.err = OK /\ ld.val.kind # "object" ->
               [ err |-> "ValueError", store |-> S ]
          [] pend.err = OK /\ ld.err = OK /\ ld.val.kind = "object"
               /\ \E f \in RequiredFields : ~Contains(ld.val, f) ->
               [ err |-> "ValueError", store |-> S ]
          [] OTHER -> [ err |-> OK, store |-> S ]

test_secret(S, token) ==
    LET pend == GetSecretValue(S, token, "AWSPENDING")
        ld   == json_loads(pend.str)
    IN  CASE pend.err # OK -> [ err |-> pend.err, store |-> S ]
          [] pend.err = OK /\ ld.err # OK -> [ err |-> ld.err, store |-> S ]
          [] pend.err = OK /\ ld.err = OK /\ ld.val.kind # "object" ->
               [ err |-> "ValueError", store |-> S ]
          [] pend.err = OK /\ ld.err = OK /\ ld.val.kind = "object"
               /\ \E f \in RequiredFields : ~Contains(ld.val, f) ->
               [ err |-> "ValueError", store |-> S ]
          [] OTHER -> [ err |-> OK, store |-> S ]

\* [err, id]
get_current_version_id(S) ==
    LET vs == DescribeSecret(S)
        c  == { v \in DOMAIN vs : "AWSCURRENT" \in vs[v] }
    IN  IF c = {} THEN [ err |-> "ValueError", id |-> NoId ]
        ELSE [ err |-> OK, id |-> CHOOSE v \in c : TRUE ]

\* finish_secret, but AWSPENDING is taken off the token's version in a call
\* of its own before AWSCURRENT is moved.
finish_secret_TwoPhase(S, token) ==
    LET cur == get_current_version_id(S)
        off == UpdateSecretVersionStage(S,
                 [ SecretId |-> "secret_arn", VersionStage |-> "AWSPENDING",
                   RemoveFromVersionId |-> token ])
    IN  IF cur.err # OK THEN [ err |-> cur.err, store |-> S ]
        ELSE IF off.err # OK THEN off
        ELSE UpdateSecretVersionStage(off.store,
                 [ SecretId |-> "secret_arn", VersionStage |-> "AWSCURRENT",
                   ClientRequestToken |-> token, RemoveFromVersionId |-> cur.id ])

\* The keyword arguments are evaluated first (get_current_version_id), then
\* the client call is made with them.
\* lines 121-126: the keyword arguments of the stage-move call
FinishKwargs(token, current) ==
    [ SecretId |-> "secret_arn", VersionStage |-> "AWSCURRENT",
      ClientRequestToken |-> token, RemoveFromVersionId |-> current ]

\* finish_secret, but the token is passed as MoveToVersionId.
finish_secret_MoveTo(S, token) ==
    LET cur == get_current_version_id(S)
    IN  IF cur.err # OK THEN [ err |-> cur.err, store |-> S ]
        ELSE UpdateSecretVersionStage(S,
                 [ SecretId |-> "secret_arn", VersionStage |-> "AWSCURRENT",
                   MoveToVersionId |-> token, RemoveFromVersionId |-> cur.id ])

finish_secret(S, token) ==
    LET cur == get_current_version_id(S)
    IN  IF cur.err # OK THEN [ err |-> cur.err, store |-> S ]
        ELSE UpdateSecretVersionStage(S, FinishKwargs(token, cur.id))

\* ------------------------------------------------------- the coordinator
\* Dispatch, but a step that is not known is handled as setSecret.
Dispatch_Lenient(S, step, token, now, fault) ==
    CASE step = "createSecret" ->
           << [ name |-> "create_secret" ] @@ create_secret(S, token, now, fault) >>
      [] step = "testSecret" ->
           << [ name |-> "test_secret" ] @@ test_secret(S, token) >>
      [] step = "finishSecret" ->
           << [ name |-> "finish_secret" ] @@ finish_secret(S, token) >>
      [] OTHER ->
           << [ name |-> "set_secret" ] @@ set_secret(S, token) >>

\* Dispatch(step, ...): the step handlers that handler() calls for the step,
\* in order, each with its outcome.  A sequence of [name, err, store].
Dispatch(S, step, token, now, fault) ==
    CASE step = "createSecret" ->
           << [ name |-> "create_secret" ] @@ create_secret(S, token, now, fault) >>
      [] step = "setSecret" ->
           << [ name |-> "set_secret" ] @@ set_secret(S, token) >>
      [] step = "testSecret" ->
           << [ name |-> "test_secret" ] @@ test_secret(S, token) >>
      [] step = "finishSecret" ->
           << [ name |-> "finish_secret" ] @@ finish_secret(S, token) >>
      [] OTHER -> << >>

\* handler, but the handler's exception is logged and not raised again.
handler_Swallow(S, step, token, now, fault) ==
    LET calls == Dispatch(S, step, token, now, fault)
    IN  IF calls = << >>
        THEN [ err |-> InvalidStep, calls |-> calls, store |-> S ]
        ELSE [ err |-> OK, calls |-> calls, store |-> calls[Len(calls)].store ]

\* handler(event, context): [err, calls, store].  err is OK for the return
\* of statusCode 200, else the exception raised to the caller.
handler(S, step, token, now, fault) ==
    LET calls == Dispatch(S, step, token, now, fault)
    IN  IF calls = << >>
        THEN [ err |-> InvalidStep, calls |-> calls, store |-> S ]
        ELSE [ err |-> calls[Len(calls)].err, calls |-> calls,
               store |-> calls[Len(calls)].store ]

\* --------------------------------------------------------------- state
\* store: the secret's versions in Secrets Manager.
\* pre:   the store as it was when the latest request arrived.
\* last:  the latest request and its outcome: step, token, err (OK or the
\*        exception raised to the caller), calls (the step handlers run, each
\*        with its outcome), fault (the store failed the put of this request),
\*        again (an earlier createSecret with this token had succeeded).
\* created: the tokens for which a createSecret request has succeeded.
\* run:   k in 1..4 when the requests so far are the rotation protocol in
\*        order with one fresh token and no store fault, on a secret whose
\*        first AWSCURRENT payload was an object with apiVersion, the latest
\*        being step k; 0 before the first request; -1 otherwise.
\* rejected: the tokens whose testSecret has failed with a validation error.
\* pc, seen: two rotation attempts that run concurrently (SpecConc), each an
\*        in-order sequence of invocations whose finish_secret is two store
\*        operations: describe_secret (its result kept in seen) and the
\*        stage move.  pc is the attempt's next step, "done" after a stage
\*        move that succeeded, "moveFailed" after one that failed, "failed"
\*        after another failure, "idle" when invocations are not interleaved.
VARIABLES store, pre, last, created, run, rejected, pc, seen

vars == << store, pre, last, created, run, rejected, pc, seen >>

Attempts == { 1, 2 }

AttemptToken(a) == Tok(a + 1)

V0 == Tok(1)

ApiV(n) == << "apiVersion", IntVal(n) >>

Endpoint == << "endpoint", StrVal(<< 5 >>) >>

\* SecretStrings the secret's first version may hold
InitStrings ==
    { JObject(<< ApiV(1) >>),
      JObject(<< ApiV(1), Endpoint >>),
      JObject(<< << "rotationId", StrVal(<< 9, 9 >>) >>, ApiV(1),
                 << "lastRotated", IntVal(0) >> >>),
      JObject(<< ApiV(1), Endpoint, ApiV(2) >>),
      JObject(<< Endpoint >>),
      JArray(<< >>),
      JArray(<< "apiVersion" >>),
      JScalar,
      JInvalid }

OneVersion(id, string, labels) ==
    [ ids |-> { id }, str |-> [ v \in { id } |-> string ],
      stages |-> [ v \in { id } |-> labels ] ]

IsValidPayload(string) ==
    /\ string.kind = "object"
    /\ "apiVersion" \in Keys(string.pairs)

NoRequest ==
    [ step |-> "none", token |-> NoId, err |-> OK, calls |-> << >>,
      fault |-> FALSE, again |-> FALSE ]

\* SecretStrings of a pending version left behind by an abandoned rotation
LeftoverStrings == { JInvalid, JScalar }

WithVersion(S, id, string, labels) ==
    [ ids |-> S.ids \cup { id },
      str |-> [ v \in S.ids \cup { id } |-> IF v = id THEN string ELSE S.str[v] ],
      stages |-> [ v \in S.ids \cup { id } |-> IF v = id THEN labels ELSE S.stages[v] ] ]

\* The secret before the first invocation: without any version, or with one
\* AWSCURRENT version and possibly one AWSPENDING version.
Init ==
    /\ \/ store = EmptyStore
       \/ \E string \in InitStrings :
            \/ store = OneVersion(V0, string, { "AWSCURRENT" })
            \/ \E left \in LeftoverStrings :
                 store = WithVersion(OneVersion(V0, string, { "AWSCURRENT" }),
                                     Tok(2), left, { "AWSPENDING" })
    /\ pre = store
    /\ last = NoRequest
    /\ created = {}
    /\ run = IF store.ids # {} /\ IsValidPayload(store.str[V0]) THEN 0 ELSE -1
    /\ rejected = {}
    /\ pc = [ a \in Attempts |-> "idle" ]
    /\ seen = [ a \in Attempts |-> NoId ]

StepIndex(step) ==
    IF step \in Range(KnownSteps)
    THEN CHOOSE i \in 1..Len(KnownSteps) : KnownSteps[i] = step
    ELSE 0

NextRun(step, token, fault) ==
    CASE run = -1 \/ fault -> -1
      [] run = 0 /\ ~fault ->
           IF StepIndex(step) = 1 /\ token \notin store.ids THEN 1 ELSE -1
      [] OTHER ->
           IF token = last.token /\ StepIndex(step) \in { run, run + 1 }
           THEN StepIndex(step) ELSE -1

\* One invocation of the Lambda: handler({SecretId, ClientRequestToken: token,
\* Step: step}) at time `now`.
\* The outcome r = [err, calls, store] of an invocation takes effect and is
\* recorded.
Observe(step, token, fault, r) ==
    /\ store' = r.store
    /\ pre' = store
    /\ last' = [ step |-> step, token |-> token, err |-> r.err,
                 calls |-> [ i \in 1..Len(r.calls) |->
                               [ name |-> r.calls[i].name, err |-> r.calls[i].err ] ],
                 fault |-> fault, again |-> token \in created ]
    /\ created' = IF step = "createSecret" /\ r.err = OK
                  THEN created \cup { token } ELSE created
    /\ run' = NextRun(step, token, fault)
    /\ rejected' = IF step = "testSecret" /\ IsValueError(r.err)
                   THEN rejected \cup { token } ELSE rejected

Invoke(step, token, now, fault) ==
    /\ Observe(step, token, fault, handler(store, step, token, now, fault))
    /\ UNCHANGED << pc, seen >>

CreateSecret ==
    \E token \in Tokens, now \in Times, fault \in BOOLEAN :
        Invoke("createSecret", token, now, fault)

SetSecret == \E token \in Tokens : Invoke("setSecret", token, 1, FALSE)

TestSecret == \E token \in Tokens : Invoke("testSecret", token, 1, FALSE)

FinishSecret == \E token \in Tokens : Invoke("finishSecret", token, 1, FALSE)

UnknownStep ==
    \E step \in StepInputs \ Range(KnownSteps), token \in Tokens :
        Invoke(step, token, 1, FALSE)

Next ==
    \/ CreateSecret
    \/ SetSecret
    \/ TestSecret
    \/ FinishSecret
    \/ UnknownStep

Spec == Init /\ [][Next]_vars

\* ------------------------------------------------------------ claims
Current(S) == Holders(S, "AWSCURRENT")

Pending(S) == Holders(S, "AWSPENDING")

Requested(step) == last.step = step

\* C1: in every reachable state at most one version carries AWSCURRENT and
\* at most one version carries AWSPENDING.
C1_OneCurrentOnePending ==
    /\ Cardinality(Current(store)) <= 1
    /\ Cardinality(Pending(store)) <= 1

\* C1 witness: a second rotation's createSecret has taken AWSPENDING from
\* the version of the first, beside the AWSCURRENT version.
C1_Witness ==
    /\ Cardinality(store.ids) >= 3
    /\ Cardinality(Current(store)) = 1
    /\ Pending(store) = { last.token }
    /\ \E t \in created \ { last.token } : t \notin Current(store)

\* C2: a createSecret with a token for which an earlier createSecret
\* succeeded reports success (the store not failing the request), creates no
\* version and changes no payload and no stage label.
C2_CreateTwice ==
    (Requested("createSecret") /\ last.again)
        => /\ store = pre
           /\ last.token \in store.ids
           /\ ~last.fault => last.err = OK

\* C2 witness: the repeated createSecret succeeded on the version the first
\* call created, which still carries AWSPENDING.
C2_Witness ==
    /\ Requested("createSecret") /\ last.again /\ ~last.fault
    /\ last.err = OK
    /\ last.token # V0
    /\ "AWSPENDING" \in store.stages[last.token]

\* C3 (as claimed): a finishSecret with a token whose version already holds
\* AWSCURRENT reports success and changes nothing.
C3_FinishAgainSucceeds ==
    (Requested("finishSecret") /\ last.token \in Current(pre))
        => /\ last.err = OK
           /\ store = pre

\* C5: testSecret leaves the store as it was, whatever its outcome.
C5_TestReadsOnly == Requested("testSecret") => store = pre

\* C5 witness: a testSecret that failed validation of a pending version.
C5_Witness ==
    /\ Requested("testSecret")
    /\ IsValueError(last.err)
    /\ last.token \in Pending(store)

BadPayload(string) ==
    \/ string.kind # "object"
    \/ "apiVersion" \notin Keys(string.pairs)

\* C6: testSecret on a pending version whose payload is not an object or
\* has no apiVersion fails with a validation error (a ValueError), and the
\* version still carries AWSPENDING.
C6_TestRejectsBadPayload ==
    (/\ Requested("testSecret")
     /\ last.token \in Pending(pre)
     /\ BadPayload(pre.str[last.token]))
        => /\ IsValueError(last.err)
           /\ last.token \in Pending(store)

\* C6 witness: testSecret rejected a pending object that createSecret copied
\* from a current payload without apiVersion.
C6_Witness ==
    /\ Requested("testSecret")
    /\ last.token \in Pending(pre) \cap created
    /\ pre.str[last.token].kind = "object"
    /\ BadPayload(pre.str[last.token])
    /\ last.err = "ValueError"

\* C7: testSecret with a token whose version does not exist or does not
\* carry AWSPENDING fails with ResourceNotFoundException.
C7_TestNeedsPending ==
    (Requested("testSecret") /\ last.token \notin Pending(pre))
        => last.err = "ResourceNotFoundException"

\* C7 witness: the token's version exists, with a valid payload, but
\* AWSPENDING has moved to the version of another token.
C7_Witness ==
    /\ Requested("testSecret")
    /\ last.token \in pre.ids \ Pending(pre)
    /\ last.token \in created
    /\ ~BadPayload(pre.str[last.token])
    /\ Pending(pre) # {}
    /\ last.err = "ResourceNotFoundException"

\* C8 (as claimed): in a run of createSecret, setSecret, testSecret,
\* finishSecret in that order with one fresh token, each step invoked one or
\* more times, with no store fault, from a current payload that is an object
\* with apiVersion, every invocation succeeds.
C8_InOrderRunSucceeds == run >= 1 => last.err = OK

\* C9: a request with an unknown step fails with the invalid-step error,
\* runs no step handler and leaves the store unchanged.
C9_UnknownStepRejected ==
    (last.step \notin Range(KnownSteps) \cup { "none" })
        => /\ last.err = InvalidStep
           /\ last.calls = << >>
           /\ store = pre

\* C9 witness: an unknown step was rejected on a secret with a pending version.
C9_Witness ==
    /\ Requested("rollbackSecret")
    /\ last.err = InvalidStep
    /\ Pending(store) # {}

HandlerOf(step) ==
    CASE step = "createSecret" -> "create_secret"
      [] step = "setSecret"    -> "set_secret"
      [] step = "testSecret"   -> "test_secret"
      [] step = "finishSecret" -> "finish_secret"

\* C10: a request with a known step runs that step's handler exactly once
\* and no other, and its outcome is the handler's: success iff the handler
\* returned, else the handler's own exception.
C10_OutcomeIsHandlers ==
    (last.step \in Range(KnownSteps))
        => /\ Len(last.calls) = 1
           /\ last.calls[1].name = HandlerOf(last.step)
           /\ last.err = last.calls[1].err

\* C10 witness: a handler's exception reached the caller.
C10_Witness ==
    /\ Requested("testSecret")
    /\ Len(last.calls) = 1
    /\ last.calls[1].err = "ValueError"
    /\ last.err = "ValueError"

\* C11: setSecret always succeeds and leaves the store unchanged, also for
\* a token that has no version.
C11_SetIsNoOp ==
    Requested("setSecret") => (last.err = OK /\ store = pre)

\* C11 witness: a setSecret succeeded for a token without a version, on a
\* secret that has a pending version of another token.
C11_Witness ==
    /\ Requested("setSecret")
    /\ last.token \notin store.ids
    /\ Pending(store) # {}
    /\ last.err = OK

\* C13: createSecret, setSecret and testSecret leave AWSCURRENT on the
\* version that has it and leave that version's payload alone; the holder of
\* AWSCURRENT changes only in a finishSecret that succeeds.
C13_CurrentStaysUntilFinish ==
    /\ last.step \in { "createSecret", "setSecret", "testSecret" }
         => /\ Current(store) = Current(pre)
            /\ \A v \in Current(pre) : store.str[v] = pre.str[v]
    /\ Current(store) # Current(pre)
         => (Requested("finishSecret") /\ last.err = OK)

\* C13 witness: a createSecret has added a pending version beside the
\* version that holds AWSCURRENT.
C13_Witness ==
    /\ Requested("createSecret")
    /\ last.err = OK
    /\ last.token \in store.ids \ pre.ids
    /\ Current(store) = { V0 }
    /\ store.str[V0] = pre.str[V0]

\* C14: a createSecret on a secret without AWSCURRENT version, or whose put
\* the store fails with another error than already-exists, reports failure
\* and adds no version.
C14_CreateFailureSurfaces ==
    (Requested("createSecret") /\ (Current(pre) = {} \/ last.fault))
        => /\ last.err # OK
           /\ store = pre

\* C14 witness: the store failed the put of a createSecret whose token had
\* no version yet.
C14_Witness ==
    /\ Requested("createSecret")
    /\ last.fault
    /\ last.err = "InternalServiceError"
    /\ last.token \notin store.ids

\* C15: a finishSecret that fails changes no stage label (and nothing else
\* in the store).
C15_FailedFinishChangesNothing ==
    (Requested("finishSecret") /\ last.err # OK) => store = pre

\* C15 witness: a finishSecret failed for a token whose version is pending,
\* with another version holding AWSCURRENT.
C15_Witness ==
    /\ Requested("finishSecret")
    /\ last.err # OK
    /\ last.token \in Pending(store)
    /\ Current(store) = { V0 }

\* The value json gives key k of an object text: that of its last occurrence.
LastValue(pairs, k) ==
    LET at == { i \in 1..Len(pairs) : pairs[i][1] = k }
    IN  pairs[CHOOSE i \in at : \A j \in at : j <= i][2]

Added == { "lastRotated", "rotationId" }

InitValid ==
    /\ Init
    /\ store.ids = { V0 }
    /\ IsValidPayload(store.str[V0])

SpecValid == InitValid /\ [][Next]_vars

\* C19: from a valid first payload every version's payload is an object
\* with apiVersion, testSecret never fails validation, and the AWSCURRENT
\* payload passes validation.
C19_ValidityPreserved ==
    /\ \A v \in store.ids : IsValidPayload(store.str[v])
    /\ Requested("testSecret") => ~IsValueError(last.err)
    /\ \A v \in Current(store) : test_secret(WithVersion(store, v, store.str[v],
                                     { "AWSPENDING" }), v).err = OK

\* C19 witness: testSecret passed on a version that createSecret derived
\* from the first payload.
C19_Witness ==
    /\ Requested("testSecret")
    /\ last.err = OK
    /\ last.token \in created \ { V0 }
    /\ Cardinality(store.ids) >= 3

InitConc ==
    /\ \E string \in InitStrings : store = OneVersion(V0, string, { "AWSCURRENT" })
    /\ pre = store
    /\ last = NoRequest
    /\ created = {}
    /\ run = -1
    /\ rejected = {}
    /\ pc = [ a \in Attempts |-> "createSecret" ]
    /\ seen = [ a \in Attempts |-> NoId ]

\* An invocation of createSecret, setSecret or testSecret by attempt a
AttemptStep(a, step, now) ==
    LET r == handler(store, step, AttemptToken(a), now, FALSE)
    IN  /\ pc[a] = step
        /\ Observe(step, AttemptToken(a), FALSE, r)
        /\ pc' = [ pc EXCEPT ![a] = IF r.err = OK
                                    THEN KnownSteps[StepIndex(step) + 1]
                                    ELSE "failed" ]
        /\ UNCHANGED seen

AttemptCreate == \E a \in Attempts, now \in Times : AttemptStep(a, "createSecret", now)

AttemptSet == \E a \in Attempts : AttemptStep(a, "setSecret", 1)

AttemptTest == \E a \in Attempts : AttemptStep(a, "testSecret", 1)

\* finish_secret, first store operation: get_current_version_id
FinishDescribe ==
    \E a \in Attempts :
        LET cur == get_current_version_id(store)
            r   == [ err |-> cur.err, store |-> store,
                     calls |-> << [ name |-> "finish_secret", err |-> cur.err ] >> ]
        IN  /\ pc[a] = "finishSecret"
            /\ IF cur.err = OK
               THEN /\ seen' = [ seen EXCEPT ![a] = cur.id ]
                    /\ pc' = [ pc EXCEPT ![a] = "move" ]
                    /\ UNCHANGED << store, pre, last, created, run, rejected >>
               ELSE /\ Observe("finishSecret", AttemptToken(a), FALSE, r)
                    /\ pc' = [ pc EXCEPT ![a] = "failed" ]
                    /\ UNCHANGED seen

\* finish_secret, second store operation: update_secret_version_stage with
\* the version id that describe_secret gave
FinishMove ==
    \E a \in Attempts :
        LET u == UpdateSecretVersionStage(store, FinishKwargs(AttemptToken(a), seen[a]))
            r == [ err |-> u.err, store |-> u.store,
                   calls |-> << [ name |-> "finish_secret", err |-> u.err ] >> ]
        IN  /\ pc[a] = "move"
            /\ Observe("finishSecret", AttemptToken(a), FALSE, r)
            /\ pc' = [ pc EXCEPT ![a] = IF u.err = OK THEN "done" ELSE "moveFailed" ]
            /\ UNCHANGED seen

NextConc ==
    \/ AttemptCreate
    \/ AttemptSet
    \/ AttemptTest
    \/ FinishDescribe
    \/ FinishMove

SpecConc == InitConc /\ [][NextConc]_vars

\* C17 (as claimed): when the stage moves of both attempts have executed,
\* exactly one version holds AWSCURRENT and it is the version of an attempt
\* whose finishSecret reported success.
C17_OneWinner ==
    (\A a \in Attempts : pc[a] \in { "done", "moveFailed" })
        => /\ Cardinality(Current(store)) = 1
           /\ \E a \in Attempts : pc[a] = "done" /\ Current(store) = { AttemptToken(a) }

====
